---- MODULE Spec2Model ----
(***************************************************************************)
(* MyCache (geecache): the LRU store with per-entry TTL and an expiry      *)
(* heap (lru/lru.go), the singleflight coalescer                           *)
(* (singleflight/singleflight.go) and the Group read path (geecache.go).   *)
(*                                                                         *)
(* Four specifications share the module; each one drives one component     *)
(* and leaves the variables of the others at their initial values:         *)
(*   SpecLRU    the single-threaded LRU store                              *)
(*   SpecSF     concurrent callers of singleflight Group.Do                *)
(*   SpecGroup  concurrent callers of geecache Group.Get / Set, no peers   *)
(*   SpecGroupPeers  the same with a peer picker registered                *)
(***************************************************************************)
EXTENDS Integers, Sequences, FiniteSets, TLC

VARIABLES
    lru,        \* the *lru.Cache object (record of its fields), NoLru when nil
    now,        \* the wall clock read by time.Now()
    lastOp,     \* the last step taken: its name, its key and what it returned
    stamp,      \* history: rank of each live key by its last Add / Get hit
    superseded, \* history: live keys whose expireAt replaced an earlier non-zero one
    sfMu,       \* singleflight Group.mu: the caller holding it, 0 when free
    sfM,        \* singleflight Group.m: nil, or the map key -> *call
    calls,      \* the call records allocated so far: wg, val, err
    pc,         \* each caller's position in Do (a source line), "idle", "done"
    ckey,       \* each caller's key argument
    ccall,      \* each caller's local c: the index of its call record, 0 when unset
    ret,        \* what Do returned to each caller
    ranFn,      \* history: whether the caller's Do invoked fn
    overlap,    \* history: the callers whose Do on the same key overlapped this one's
    alone,      \* history of Do: no other call on the same key has overlapped the caller's call
    started,    \* history: how many calls of Do (SpecSF), of Get and Set (SpecGroup) began
    cacheBytes, \* geecache Group.mainCache.cacheBytes
    peers,      \* geecache Group.peers: nil, or a picker and the keys it sends away
    getterCalls,\* history: how many times the external Getter was called, per key
    setUsed,    \* history: whether Group.Set has been called
    getterFailed, \* history: whether the external Getter has returned an error
    mySet,      \* history, kept under SpecGroupSet: the Set each caller made last,
                \* while its entry has stayed in the cache
    ring,       \* the *consistenthash.Map object (record of its fields)
    ringNodes,  \* history: the node names given to Map.Add so far, in order
    ringLast    \* history: the last call on the Map: its name, arguments, result

lruVars == <<lru, now, lastOp, stamp, superseded>>

sfVars == <<sfMu, sfM, calls, pc, ckey, ccall, ret, ranFn, overlap, alone, started>>

grpVars == <<cacheBytes, peers, getterCalls, setUsed, getterFailed, mySet>>

ringVars == <<ring, ringNodes, ringLast>>

vars == <<lru, now, lastOp, stamp, superseded,
          sfMu, sfM, calls, pc, ckey, ccall, ret, ranFn, overlap, alone, started,
          cacheBytes, peers, getterCalls, setUsed, getterFailed, mySet,
          ring, ringNodes, ringLast>>

----------------------------------------------------------------------------
(* Bounds and input sets *)

MaxTime == 3        \* the clock runs 1..MaxTime
MaxHeap == 2        \* Add with ttl>0 is not issued once the heap holds MaxHeap items

Keys == {"a", "b"}
Values == {"1", "12345"}
TTLs == {0, 1, 2}
MaxBytesChoices == {0, 4, 10}

MaxDo == 3          \* the callers make MaxDo calls at most between them
Callers == {1, 2, 3}
SFKeys == {"k1", "k2"}
\* what a caller's fn may return: (value, nil) or (nil, error)
FnResults == {[val |-> "v1", err |-> ""],
              [val |-> "v2", err |-> ""],
              [val |-> "", err |-> "e"]}
NoRet == [val |-> "-", err |-> "-"]

GCallers == {1, 2}
GKeys == {"k1", "k2"}
SetValues == {"s"}
SetTTLs == {0, 1}
CacheBytesChoices == {0, 4}
NilPeers == [nil |-> TRUE, remote |-> {}]
\* a registered picker whose ring gives k1 to a remote peer and k2 to this node
Picker == [nil |-> FALSE, remote |-> {"k1"}]
\* the bytes the external Getter holds for a key
GetterBytes(key) == IF key = "k1" THEN "v1" ELSE "v2"
\* the bytes the remote peer answers with
PeerBytes(key) == "p"
\* the error of a failed peer fetch, and the error of a failed Getter
PeerErr == "pe"
GetterErr == "e"

NoLru == [nil |-> TRUE]

\* the history of Sets: not kept; no Set to follow; a Set whose entry has
\* left the cache or was set again by another caller
Untracked == <<>>
NoSet == [key |-> "", value |-> "", live |-> FALSE]
Dead == [key |-> "-", value |-> "", live |-> FALSE]
NoOp == [op |-> "none"]

\* the zero time.Time: expireAt of an entry that never expires
ZeroTime == 0

Range(s) == {s[i] : i \in 1..Len(s)}

Max(S) == CHOOSE x \in S : \A y \in S : y <= x

----------------------------------------------------------------------------
(* container/heap over expireHeap: items are [expireAt, key], 1-indexed *)

\* expireHeap.Less
Less(h, i, j) == h[i].expireAt < h[j].expireAt

\* expireHeap.Swap
Swap(h, i, j) == [h EXCEPT ![i] = h[j], ![j] = h[i]]

\* heap.up: sift the item at j towards the root while it is Less than its parent
RECURSIVE up(_, _)
up(h, j) ==
    IF j = 1 THEN h
    ELSE LET i == j \div 2 IN
         IF ~Less(h, j, i) THEN h ELSE up(Swap(h, i, j), i)

\* heap.down: sift the item at i below, within the first n items
RECURSIVE down(_, _, _)
down(h, i, n) ==
    LET j1 == 2 * i
        j2 == j1 + 1
        j  == IF j2 <= n /\ Less(h, j2, j1) THEN j2 ELSE j1
    IN IF j1 > n THEN h
       ELSE IF ~Less(h, j, i) THEN h
       ELSE down(Swap(h, i, j), j, n)

\* heapPush that appends and does not sift up
heapPushNoUp(h, item) == Append(h, item)

\* heap.Push(c.expireHeap, item): append, then up from the last index
heapPush(h, item) == up(Append(h, item), Len(h) + 1)

\* heap.Pop(c.expireHeap): swap root and last, down over the first n-1, drop the last
heapPop(h) ==
    LET n == Len(h) IN SubSeq(down(Swap(h, 1, n), 1, n - 1), 1, n - 1)

----------------------------------------------------------------------------
(* lru.Cache *)

\* lru.New(maxBytes, onEvicted): onEvicted tells whether a callback was given;
\* evicted records the OnEvicted calls of the operation in progress, spin that
\* Add's eviction loop can no longer exit
New(maxBytes, onEvicted) ==
    [maxBytes   |-> maxBytes,
     onEvicted  |-> onEvicted,
     nbytes     |-> 0,
     ll         |-> <<>>,
     cache      |-> {},
     expireHeap |-> <<>>,
     evicted    |-> <<>>,
     spin       |-> FALSE]

\* c.cache[key]: the list element the map holds for key (its index in ll)
Elem(c, key) == CHOOSE i \in 1..Len(c.ll) : c.ll[i].key = key

\* list.Remove
ListRemove(l, i) == SubSeq(l, 1, i - 1) \o SubSeq(l, i + 1, Len(l))

\* list.MoveToFront
MoveToFront(l, i) == <<l[i]>> \o ListRemove(l, i)

\* removeElement that gives back the value's bytes and not the key's
removeElementValueOnly(c, i) ==
    LET kv == c.ll[i] IN
    [c EXCEPT !.ll = ListRemove(c.ll, i),
              !.cache = @ \ {kv.key},
              !.nbytes = @ - Len(kv.value),
              !.evicted = IF c.onEvicted THEN Append(@, kv) ELSE @]

\* Cache.removeElement
removeElement(c, i) ==
    LET kv == c.ll[i] IN
    [c EXCEPT !.ll = ListRemove(c.ll, i),
              !.cache = @ \ {kv.key},
              !.nbytes = @ - (Len(kv.key) + Len(kv.value)),
              !.evicted = IF c.onEvicted THEN Append(@, kv) ELSE @]

\* RemoveOldest that takes c.ll.Front() for c.ll.Back()
RemoveNewest(c) ==
    IF Len(c.ll) > 0 THEN removeElement(c, 1) ELSE c

\* Cache.RemoveOldest
RemoveOldest(c) ==
    IF Len(c.ll) > 0 THEN removeElement(c, Len(c.ll)) ELSE c

\* the eviction of Cache.Add written as an if: one RemoveOldest at most
evictOnce(c, fuel) ==
    IF c.maxBytes # 0 /\ c.maxBytes < c.nbytes THEN RemoveOldest(c) ELSE c

\* the for loop that ends Cache.Add; after Len(ll)+1 rounds the list is empty
\* and RemoveOldest changes nothing, so a condition still true stays true
RECURSIVE evictLoop(_, _)
evictLoop(c, fuel) ==
    IF c.maxBytes # 0 /\ c.maxBytes < c.nbytes
    THEN IF fuel = 0 THEN [c EXCEPT !.spin = TRUE]
         ELSE evictLoop(RemoveOldest(c), fuel - 1)
    ELSE c

\* Cache.Add, called at time t
Add(c, key, value, ttl, t) ==
    LET expireAt == IF ttl > 0 THEN t + ttl ELSE ZeroTime
        pushed == IF expireAt # ZeroTime
                  THEN heapPush(c.expireHeap, [expireAt |-> expireAt, key |-> key])
                  ELSE c.expireHeap
        c1 == IF key \in c.cache
              THEN LET i == Elem(c, key)
                       kv == c.ll[i]
                   IN [c EXCEPT
                         !.ll = <<[kv EXCEPT !.value = value, !.expireAt = expireAt]>>
                                \o ListRemove(c.ll, i),
                         !.nbytes = @ + Len(value) - Len(kv.value),
                         !.expireHeap = pushed]
              ELSE [c EXCEPT
                         !.ll = <<[key |-> key, value |-> value, expireAt |-> expireAt]>>
                                \o c.ll,
                         !.cache = @ \cup {key},
                         !.nbytes = @ + Len(key) + Len(value),
                         !.expireHeap = pushed]
    IN evictLoop(c1, Len(c1.ll) + 1)

\* Cache.Get, called at time t: the cache afterwards
GetCache(c, key, t) ==
    IF key \in c.cache
    THEN LET i == Elem(c, key)
             kv == c.ll[i]
         IN IF kv.expireAt # ZeroTime /\ t > kv.expireAt
            THEN removeElement(c, i)
            ELSE [c EXCEPT !.ll = MoveToFront(c.ll, i)]
    ELSE c

\* Get's result without the expiry test
GetResultNoExpiry(c, key, t) ==
    IF key \in c.cache
    THEN [value |-> c.ll[Elem(c, key)].value, ok |-> TRUE]
    ELSE [value |-> "", ok |-> FALSE]

\* Cache.Get, called at time t: the (value, ok) it returns
GetResult(c, key, t) ==
    IF key \in c.cache
    THEN LET kv == c.ll[Elem(c, key)] IN
         IF kv.expireAt # ZeroTime /\ t > kv.expireAt
         THEN [value |-> "", ok |-> FALSE]
         ELSE [value |-> kv.value, ok |-> TRUE]
    ELSE [value |-> "", ok |-> FALSE]

\* Cache.CleanExpired with now = t
RECURSIVE CleanExpired(_, _)
CleanExpired(c, t) ==
    IF Len(c.expireHeap) > 0
    THEN LET item == c.expireHeap[1] IN
         IF t > item.expireAt
         THEN LET popped == [c EXCEPT !.expireHeap = heapPop(c.expireHeap)] IN
              IF item.key \in popped.cache
              THEN CleanExpired(removeElement(popped, Elem(popped, item.key)), t)
              ELSE CleanExpired(popped, t)
         ELSE c
    ELSE c

\* Cache.Len
CacheLen(c) == Len(c.ll)

----------------------------------------------------------------------------
(* History of recency, kept beside the store and not read by it *)

LiveStamps(s) == {s[k] : k \in {x \in DOMAIN s : s[x] > 0}}

\* key becomes the most recently used
Touch(s, key) == [s EXCEPT ![key] = Max(LiveStamps(s) \cup {0}) + 1]

\* forget the keys that left the store and renumber the rest 1..n in order
Rerank(s, live) ==
    [k \in DOMAIN s |->
        IF k \in live
        THEN Cardinality({j \in live : s[j] <= s[k]})
        ELSE 0]

----------------------------------------------------------------------------
(* consistenthash.Map: strings are sequences of one-character strings *)

MaxAdded == 3       \* Map.Add is given MaxAdded node names at most, all calls together

Digits == <<"0", "1", "2", "3", "4", "5", "6", "7", "8", "9">>

DigitVal(ch) == (CHOOSE d \in 1..10 : Digits[d] = ch) - 1

\* strconv.Itoa of a non-negative int
RECURSIVE Itoa(_)
Itoa(i) ==
    IF i < 10 THEN <<Digits[i + 1]>>
    ELSE Itoa(i \div 10) \o <<Digits[(i % 10) + 1]>>

\* strconv.Atoi of a string of decimal digits
RECURSIVE Atoi(_)
Atoi(s) ==
    IF s = <<>> THEN 0
    ELSE 10 * Atoi(SubSeq(s, 1, Len(s) - 1)) + DigitVal(s[Len(s)])

RECURSIVE SumDigits(_)
SumDigits(s) ==
    IF s = <<>> THEN 0 ELSE DigitVal(Head(s)) + SumDigits(Tail(s))

\* the Hash functions given to New: both return a uint32.
\*   "atoi"  the decimal value of the string (the identity hash on decimal strings)
\*   "sum"   the sum of its digits (many strings share a position)
HashFns == {"atoi", "sum"}
ReplicasChoices == {1, 2, 3}
Nodes == {<<"2">>, <<"4">>, <<"6">>, <<"1", "2">>}
RingKeys == {<<"2">>, <<"5">>, <<"1", "1">>, <<"1", "2">>, <<"2", "7">>, <<"9", "9">>}

\* int(m.hash([]byte(s))): the uint32 is x mod 2^32, taken in two halves of 16 bits
Hash(fn, s) ==
    LET x == IF fn = "atoi" THEN Atoi(s) ELSE SumDigits(s)
    IN (x % 65536) + 65536 * ((x \div 65536) % 65536)

\* consistenthash.New(replicas, fn)
RingNew(replicas, fn) ==
    [hash |-> fn, replicas |-> replicas, keys |-> <<>>, hashMap |-> <<>>]

\* the replica name written key + strconv.Itoa(i)
ReplicaNameSuffixed(i, key) == key \o Itoa(i)

\* Add line 37: strconv.Itoa(i) + key
ReplicaName(i, key) == Itoa(i) \o key

\* Add line 39: m.hashMap[hash] = key
hashMapStore(hm, hash, key) ==
    [x \in DOMAIN hm \cup {hash} |-> IF x = hash THEN key ELSE hm[x]]

\* Add lines 36-40: the replicas i, i+1, ... of one key
RECURSIVE AddReplicas(_, _, _)
AddReplicas(m, key, i) ==
    IF i < m.replicas
    THEN LET hash == Hash(m.hash, ReplicaName(i, key)) IN
         AddReplicas([m EXCEPT !.keys = Append(@, hash),
                               !.hashMap = hashMapStore(@, hash, key)],
                     key, i + 1)
    ELSE m

\* Add lines 35-41: every key of the argument list in turn
RECURSIVE AddKeys(_, _)
AddKeys(m, keys) ==
    IF keys = <<>> THEN m
    ELSE AddKeys(AddReplicas(m, Head(keys), 0), Tail(keys))

\* the place of x in an ascending sequence
RECURSIVE InsertSorted(_, _)
InsertSorted(s, x) ==
    IF s = <<>> THEN <<x>>
    ELSE IF x <= Head(s) THEN <<x>> \o s
    ELSE <<Head(s)>> \o InsertSorted(Tail(s), x)

\* a sort.Ints that leaves the slice as it is
SortIntsNot(s) == s

\* sort.Ints
RECURSIVE SortInts(_)
SortInts(s) ==
    IF s = <<>> THEN s ELSE InsertSorted(SortInts(Tail(s)), Head(s))

\* Map.Add(keys...)
RingAdd(m, keys) ==
    LET added == AddKeys(m, keys) IN [added EXCEPT !.keys = SortInts(@)]

\* a search for the first position strictly greater than hash
RECURSIVE SearchGreater(_, _, _, _)
SearchGreater(keys, hash, i, j) ==
    IF i < j
    THEN LET h == (i + j) \div 2 IN
         IF ~(keys[h + 1] > hash)
         THEN SearchGreater(keys, hash, h + 1, j)
         ELSE SearchGreater(keys, hash, i, h)
    ELSE i

\* sort.Search(len(m.keys), func(i) { return m.keys[i] >= hash }): the binary
\* search over the indexes [i, j), counted from 0 as in the source
RECURSIVE Search(_, _, _, _)
Search(keys, hash, i, j) ==
    IF i < j
    THEN LET h == (i + j) \div 2 IN
         IF ~(keys[h + 1] >= hash)
         THEN Search(keys, hash, h + 1, j)
         ELSE Search(keys, hash, i, h)
    ELSE i

\* Map.Get(key)
RingGet(m, key) ==
    IF Len(m.keys) = 0 THEN <<>>
    ELSE LET hash == Hash(m.hash, key)
             idx == Search(m.keys, hash, 0, Len(m.keys))
         IN m.hashMap[m.keys[(idx % Len(m.keys)) + 1]]

\* no Map built: the ring variables when another component is driven
InitRingVars ==
    /\ ring = RingNew(0, "atoi")
    /\ ringNodes = <<>>
    /\ ringLast = NoOp

----------------------------------------------------------------------------
(* singleflight.Group *)

\* the zero Group: mu unlocked, m nil, no call allocated, no caller in Do
InitSFVars ==
    /\ sfMu = 0
    /\ sfM = [nil |-> TRUE, tab |-> <<>>]
    /\ calls = <<>>
    /\ pc = [p \in Callers |-> "idle"]
    /\ ckey = [p \in Callers |-> ""]
    /\ ccall = [p \in Callers |-> 0]
    /\ ret = [p \in Callers |-> NoRet]
    /\ ranFn = [p \in Callers |-> FALSE]
    /\ overlap = [p \in Callers |-> {}]
    /\ alone = [p \in Callers |-> TRUE]
    /\ started = 0

\* a Group not yet built: the Group variables when another component is driven
InitGrpVars ==
    /\ cacheBytes = 0
    /\ peers = NilPeers
    /\ getterCalls = [k \in GKeys |-> 0]
    /\ setUsed = FALSE
    /\ getterFailed = FALSE
    /\ mySet = Untracked

InDo(p) == pc[p] \notin {"idle", "done"}

\* `if c, ok := g.m[key]; ok` that never finds the record
HasCallNever(m, key) == FALSE

\* `if c, ok := g.m[key]; ok`
HasCall(m, key) == key \in DOMAIN m.tab

\* c.wg.Wait() that returns at once
WaitOverIgnoringLatch(c) == TRUE

\* c.wg.Wait() that never returns
WaitOverNever(c) == FALSE

\* c.wg.Wait() returns once the counter is zero
WaitOver(c) == calls[c].wg = 0

\* a delete that leaves the record in the map
MapDeleteNone(m, key) == m

\* delete(g.m, key)
MapDelete(m, key) ==
    [m EXCEPT !.tab = [k \in DOMAIN m.tab \ {key} |-> m.tab[k]]]

\* g.m[key] = c
MapStore(m, key, c) ==
    [m EXCEPT !.tab = [k \in DOMAIN m.tab \cup {key} |->
                          IF k = key THEN c ELSE m.tab[k]]]

\* a caller enters Do(key, fn); what it kept of an earlier Do is dropped
DoCall(p) ==
    /\ pc[p] \in {"idle", "done"}
    /\ started < MaxDo
    /\ started' = started + 1
    /\ \E key \in SFKeys :
         LET others == {q \in Callers \ {p} : InDo(q) /\ ckey[q] = key} IN
         /\ ckey' = [ckey EXCEPT ![p] = key]
         /\ overlap' = [q \in Callers |->
                          IF q = p THEN others
                          ELSE IF q \in others THEN overlap[q] \cup {p}
                          ELSE overlap[q] \ {p}]
         /\ alone' = [q \in Callers |->
                        IF q = p THEN others = {}
                        ELSE IF q \in others THEN FALSE
                        ELSE alone[q]]
    /\ pc' = [pc EXCEPT ![p] = "L20"]
    /\ ccall' = [ccall EXCEPT ![p] = 0]
    /\ ret' = [ret EXCEPT ![p] = NoRet]
    /\ ranFn' = [ranFn EXCEPT ![p] = FALSE]
    /\ UNCHANGED <<sfMu, sfM, calls, lruVars, grpVars, ringVars>>

\* line 20: g.mu.Lock()
Lock20(p) ==
    /\ pc[p] = "L20"
    /\ sfMu = 0
    /\ sfMu' = p
    /\ pc' = [pc EXCEPT ![p] = "L21"]
    /\ UNCHANGED <<sfM, calls, ckey, ccall, ret, ranFn, overlap, alone, started, lruVars, grpVars, ringVars>>

\* lines 21-32 without the Unlock of line 32: the caller that installed a
\* record goes on to fn with the mutex held
CheckMapKeepsLock(p) ==
    /\ pc[p] = "L21"
    /\ sfMu = p
    /\ LET m == IF sfM.nil THEN [nil |-> FALSE, tab |-> <<>>] ELSE sfM IN
       IF HasCall(m, ckey[p])
       THEN /\ sfM' = m
            /\ ccall' = [ccall EXCEPT ![p] = m.tab[ckey[p]]]
            /\ pc' = [pc EXCEPT ![p] = "L26"]
            /\ calls' = calls
            /\ sfMu' = 0
       ELSE /\ calls' = Append(calls, [wg |-> 1, val |-> "", err |-> "", runs |-> 0])
            /\ ccall' = [ccall EXCEPT ![p] = Len(calls) + 1]
            /\ sfM' = MapStore(m, ckey[p], Len(calls) + 1)
            /\ pc' = [pc EXCEPT ![p] = "L34"]
            /\ sfMu' = p
    /\ UNCHANGED <<ckey, ret, ranFn, overlap, alone, started, lruVars, grpVars, ringVars>>

\* lines 21-32, under the mutex: make the map if nil; join the call found
\* under key, or allocate a call, arm its latch and install it
CheckMap(p) ==
    /\ pc[p] = "L21"
    /\ sfMu = p
    /\ LET m == IF sfM.nil THEN [nil |-> FALSE, tab |-> <<>>] ELSE sfM IN
       IF HasCall(m, ckey[p])
       THEN /\ sfM' = m
            /\ ccall' = [ccall EXCEPT ![p] = m.tab[ckey[p]]]
            /\ pc' = [pc EXCEPT ![p] = "L26"]
            /\ calls' = calls
       ELSE /\ calls' = Append(calls, [wg |-> 1, val |-> "", err |-> "", runs |-> 0])
            /\ ccall' = [ccall EXCEPT ![p] = Len(calls) + 1]
            /\ sfM' = MapStore(m, ckey[p], Len(calls) + 1)
            /\ pc' = [pc EXCEPT ![p] = "L34"]
    /\ sfMu' = 0
    /\ UNCHANGED <<ckey, ret, ranFn, overlap, alone, started, lruVars, grpVars, ringVars>>

\* line 26: c.wg.Wait()
Wait26(p) ==
    /\ pc[p] = "L26"
    /\ WaitOver(ccall[p])
    /\ pc' = [pc EXCEPT ![p] = "L27"]
    /\ UNCHANGED <<sfMu, sfM, calls, ckey, ccall, ret, ranFn, overlap, alone, started, lruVars, grpVars, ringVars>>

\* lines 27 and 41: return c.val, c.err
Return(p) ==
    /\ pc[p] \in {"L27", "L41"}
    /\ ret' = [ret EXCEPT ![p] = [val |-> calls[ccall[p]].val,
                                  err |-> calls[ccall[p]].err]]
    /\ pc' = [pc EXCEPT ![p] = "done"]
    /\ UNCHANGED <<sfMu, sfM, calls, ckey, ccall, ranFn, overlap, alone, started, lruVars, grpVars, ringVars>>

\* line 34: fn is entered
FnEnter(p) ==
    /\ pc[p] = "L34"
    /\ pc' = [pc EXCEPT ![p] = "fn"]
    /\ ranFn' = [ranFn EXCEPT ![p] = TRUE]
    /\ calls' = [calls EXCEPT ![ccall[p]].runs = @ + 1]
    /\ UNCHANGED <<sfMu, sfM, ckey, ccall, ret, overlap, alone, started, lruVars, grpVars, ringVars>>

\* line 34: fn returns and c.val, c.err are assigned
FnReturn(p) ==
    /\ pc[p] = "fn"
    /\ \E r \in FnResults :
         calls' = [calls EXCEPT ![ccall[p]].val = r.val, ![ccall[p]].err = r.err]
    /\ pc' = [pc EXCEPT ![p] = "L35"]
    /\ UNCHANGED <<sfMu, sfM, ckey, ccall, ret, ranFn, overlap, alone, started, lruVars, grpVars, ringVars>>

\* line 35 without the Done: the latch is left armed
Done35NoSignal(p) ==
    /\ pc[p] = "L35"
    /\ pc' = [pc EXCEPT ![p] = "L37"]
    /\ UNCHANGED <<sfMu, sfM, calls, ckey, ccall, ret, ranFn, overlap, alone, started,
                   lruVars, grpVars, ringVars>>

\* line 35: c.wg.Done()
Done35(p) ==
    /\ pc[p] = "L35"
    /\ calls' = [calls EXCEPT ![ccall[p]].wg = @ - 1]
    /\ pc' = [pc EXCEPT ![p] = "L37"]
    /\ UNCHANGED <<sfMu, sfM, ckey, ccall, ret, ranFn, overlap, alone, started, lruVars, grpVars, ringVars>>

\* line 37: g.mu.Lock()
Lock37(p) ==
    /\ pc[p] = "L37"
    /\ sfMu = 0
    /\ sfMu' = p
    /\ pc' = [pc EXCEPT ![p] = "L38"]
    /\ UNCHANGED <<sfM, calls, ckey, ccall, ret, ranFn, overlap, alone, started, lruVars, grpVars, ringVars>>

\* lines 38-39: delete(g.m, key); g.mu.Unlock()
Delete38(p) ==
    /\ pc[p] = "L38"
    /\ sfMu = p
    /\ sfM' = MapDelete(sfM, ckey[p])
    /\ sfMu' = 0
    /\ pc' = [pc EXCEPT ![p] = "L41"]
    /\ UNCHANGED <<calls, ckey, ccall, ret, ranFn, overlap, alone, started, lruVars, grpVars, ringVars>>

InitSF ==
    /\ lru = NoLru
    /\ now = 1
    /\ lastOp = NoOp
    /\ stamp = [k \in Keys |-> 0]
    /\ superseded = {}
    /\ InitSFVars
    /\ InitGrpVars
    /\ InitRingVars

NextSF ==
    \E p \in Callers :
        \/ DoCall(p)
        \/ Lock20(p)
        \/ CheckMap(p)
        \/ Wait26(p)
        \/ Return(p)
        \/ FnEnter(p)
        \/ FnReturn(p)
        \/ Done35(p)
        \/ Lock37(p)
        \/ Delete38(p)

SpecSF == InitSF /\ [][NextSF]_vars

\* the steps of Do that a scheduled goroutine takes by itself: all but the
\* entry into Do and the return of fn, which the caller and fn decide
DoProgress(p) ==
    \/ Lock20(p)
    \/ CheckMap(p)
    \/ Wait26(p)
    \/ Return(p)
    \/ FnEnter(p)
    \/ Done35(p)
    \/ Lock37(p)
    \/ Delete38(p)

MaxDoFair == 2      \* under SpecSFFair the callers make MaxDoFair calls at most

NextSFFair == NextSF /\ started' <= MaxDoFair

\* SpecSF under a fair scheduler: a goroutine that can go on in Do does
SpecSFFair ==
    /\ InitSF
    /\ [][NextSFFair]_vars
    /\ \A p \in Callers : WF_vars(DoProgress(p))

----------------------------------------------------------------------------
(* SpecLRU: one client drives a store built by New(maxBytes, recorder) *)

Fresh(c) == [c EXCEPT !.evicted = <<>>]

InitLRU ==
    /\ \E mb \in MaxBytesChoices : lru = New(mb, TRUE)
    /\ now = 1
    /\ lastOp = NoOp
    /\ stamp = [k \in Keys |-> 0]
    /\ superseded = {}
    /\ InitSFVars
    /\ InitGrpVars
    /\ InitRingVars

\* time passes between operations
Tick ==
    /\ now < MaxTime
    /\ now' = now + 1
    /\ lastOp' = [op |-> "Tick"]
    /\ UNCHANGED <<lru, stamp, superseded, sfVars, grpVars, ringVars>>

DoAdd ==
    /\ ~lru.spin
    /\ \E key \in Keys, value \in Values, ttl \in TTLs :
         /\ ttl > 0 => Len(lru.expireHeap) < MaxHeap
         /\ lru' = Add(Fresh(lru), key, value, ttl, now)
         /\ lastOp' = [op |-> "Add", key |-> key]
         /\ stamp' = Rerank(Touch(stamp, key), lru'.cache)
         /\ superseded' =
              (IF /\ key \in lru.cache
                  /\ lru.ll[Elem(lru, key)].expireAt # ZeroTime
                  /\ ttl > 0
               THEN superseded \cup {key}
               ELSE superseded \ {key}) \cap lru'.cache
    /\ UNCHANGED <<now, sfVars, grpVars, ringVars>>

DoGet ==
    /\ ~lru.spin
    /\ \E key \in Keys :
         LET r == GetResult(lru, key, now) IN
         /\ lru' = GetCache(Fresh(lru), key, now)
         /\ lastOp' = [op |-> "Get", key |-> key, value |-> r.value, ok |-> r.ok]
         /\ stamp' = Rerank(IF r.ok THEN Touch(stamp, key) ELSE stamp, lru'.cache)
         /\ superseded' = superseded \cap lru'.cache
    /\ UNCHANGED <<now, sfVars, grpVars, ringVars>>

DoRemoveOldest ==
    /\ ~lru.spin
    /\ lru' = RemoveOldest(Fresh(lru))
    /\ lastOp' = [op |-> "RemoveOldest"]
    /\ stamp' = Rerank(stamp, lru'.cache)
    /\ superseded' = superseded \cap lru'.cache
    /\ UNCHANGED <<now, sfVars, grpVars, ringVars>>

DoCleanExpired ==
    /\ ~lru.spin
    /\ lru' = CleanExpired(Fresh(lru), now)
    /\ lastOp' = [op |-> "CleanExpired"]
    /\ stamp' = Rerank(stamp, lru'.cache)
    /\ superseded' = superseded \cap lru'.cache
    /\ UNCHANGED <<now, sfVars, grpVars, ringVars>>

NextLRU ==
    \/ Tick
    \/ DoAdd
    \/ DoGet
    \/ DoRemoveOldest
    \/ DoCleanExpired

SpecLRU == InitLRU /\ [][NextLRU]_vars

----------------------------------------------------------------------------
(* geecache: the guarded cache (a mutex around a lazily built lru.Cache) *)

\* cache.add: under the mutex, build the lru on first use (no OnEvicted
\* callback), then lru.Add
cacheAdd(c, bytes, key, value, ttl, t) ==
    Add(IF c = NoLru THEN New(bytes, FALSE) ELSE c, key, value, ttl, t)

\* cache.get: under the mutex, a miss when the lru is not built, else lru.Get
cacheGetCache(c, key, t) ==
    IF c = NoLru THEN c ELSE GetCache(c, key, t)

cacheGetResult(c, key, t) ==
    IF c = NoLru THEN [value |-> "", ok |-> FALSE] ELSE GetResult(c, key, t)

\* cache.cleanExpired: under the mutex, lru.CleanExpired when the lru is built
cacheCleanExpired(c, t) ==
    IF c = NoLru THEN c ELSE CleanExpired(c, t)

----------------------------------------------------------------------------
(* geecache.Group: callers of Get and Set, the loader and the sweeper *)

\* NewGroup(name, cacheBytes, getter): no lru yet, no peers, a zero loader
InitGroup ==
    /\ lru = NoLru
    /\ now = 1
    /\ lastOp = NoOp
    /\ stamp = [k \in Keys |-> 0]
    /\ superseded = {}
    /\ InitSFVars
    /\ cacheBytes \in CacheBytesChoices
    /\ peers = NilPeers
    /\ getterCalls = [k \in GKeys |-> 0]
    /\ setUsed = FALSE
    /\ getterFailed = FALSE
    /\ mySet = Untracked
    /\ InitRingVars

\* Group.RegisterPeers: panics when a picker is already set
RegisterPeers(g, picker) == picker

\* NewGroup followed by RegisterPeers(Picker)
InitGroupPeers ==
    /\ lru = NoLru
    /\ now = 1
    /\ lastOp = NoOp
    /\ stamp = [k \in Keys |-> 0]
    /\ superseded = {}
    /\ InitSFVars
    /\ cacheBytes = 0
    /\ peers = RegisterPeers(NilPeers, Picker)
    /\ getterCalls = [k \in GKeys |-> 0]
    /\ setUsed = FALSE
    /\ getterFailed = FALSE
    /\ mySet = Untracked
    /\ InitRingVars

\* NewGroup: the Group of InitGroup, the history of Sets kept
InitGroupSet ==
    /\ lru = NoLru
    /\ now = 1
    /\ lastOp = NoOp
    /\ stamp = [k \in Keys |-> 0]
    /\ superseded = {}
    /\ InitSFVars
    /\ cacheBytes \in CacheBytesChoices
    /\ peers = NilPeers
    /\ getterCalls = [k \in GKeys |-> 0]
    /\ setUsed = FALSE
    /\ getterFailed = FALSE
    /\ mySet = [p \in Callers |-> NoSet]
    /\ InitRingVars

\* the history of Sets once the cache has become c: a Set whose entry is no
\* longer in the cache (evicted, expired, swept) is dropped
Follow(ms, c) ==
    IF ms = Untracked THEN ms
    ELSE [q \in Callers |->
            IF ms[q].live /\ (IF c = NoLru THEN TRUE ELSE ms[q].key \notin c.cache)
            THEN Dead ELSE ms[q]]

\* the history of Sets after caller p's Set(key, value) made the cache c
FollowSet(ms, c, p, key, value) ==
    IF ms = Untracked THEN ms
    ELSE [q \in Callers |->
            IF q = p
            THEN IF key \in c.cache
                 THEN [key |-> key, value |-> value, live |-> TRUE]
                 ELSE Dead
            ELSE IF ms[q].live /\ ms[q].key = key THEN Dead
            ELSE Follow(ms, c)[q]]

\* the history of Sets after caller p's Get made the cache c
FollowGet(ms, c, p) ==
    IF ms = Untracked THEN ms
    ELSE [q \in Callers |-> IF q = p THEN NoSet ELSE Follow(ms, c)[q]]

\* the clock advances
GTick ==
    /\ now < MaxTime
    /\ now' = now + 1
    /\ UNCHANGED <<lru, lastOp, stamp, superseded, sfVars, grpVars, ringVars>>

\* the sweeper goroutine of NewGroup: mainCache.cleanExpired() on a tick
GSweep ==
    /\ lru' = cacheCleanExpired(lru, now)
    /\ mySet' = Follow(mySet, lru')
    /\ UNCHANGED <<now, lastOp, stamp, superseded, sfVars,
                   cacheBytes, peers, getterCalls, setUsed, getterFailed, ringVars>>

\* Group.Set: mainCache.add(key, clone(value), ttl)
GroupSet(p) ==
    /\ pc[p] \in {"idle", "done"}
    /\ \E key \in GKeys, value \in SetValues, ttl \in SetTTLs :
         /\ ttl > 0 => (IF lru = NoLru THEN TRUE ELSE Len(lru.expireHeap) < MaxHeap)
         /\ lru' = cacheAdd(lru, cacheBytes, key, value, ttl, now)
         /\ mySet' = FollowSet(mySet, lru', p, key, value)
    /\ started < MaxDo
    /\ started' = started + 1
    /\ setUsed' = TRUE
    /\ UNCHANGED <<now, lastOp, stamp, superseded,
                   sfMu, sfM, calls, pc, ckey, ccall, ret, ranFn, overlap, alone,
                   cacheBytes, peers, getterCalls, getterFailed, ringVars>>

\* Group.Get lines 77-86: reject the empty key; return a cache hit; on a miss
\* go on to load, which enters loader.Do(key, ...)
GroupGet(p) ==
    /\ pc[p] \in {"idle", "done"}
    /\ started < MaxDo
    /\ started' = started + 1
    /\ \E key \in GKeys \cup {""} :
         LET r == cacheGetResult(lru, key, now)
             others == {q \in GCallers \ {p} : InDo(q) /\ ckey[q] = key}
         IN
         /\ ckey' = [ckey EXCEPT ![p] = key]
         /\ ccall' = [ccall EXCEPT ![p] = 0]
         /\ ranFn' = [ranFn EXCEPT ![p] = FALSE]
         /\ overlap' = [q \in Callers |->
                          IF q = p THEN others
                          ELSE IF q \in others THEN overlap[q] \cup {p}
                          ELSE overlap[q] \ {p}]
         /\ alone' = alone
         /\ IF key = ""
            THEN /\ ret' = [ret EXCEPT ![p] = [val |-> "", err |-> "key is required"]]
                 /\ pc' = [pc EXCEPT ![p] = "done"]
                 /\ lru' = lru
            ELSE /\ lru' = cacheGetCache(lru, key, now)
                 /\ IF r.ok
                    THEN /\ ret' = [ret EXCEPT ![p] = [val |-> r.value, err |-> ""]]
                         /\ pc' = [pc EXCEPT ![p] = "done"]
                    ELSE /\ ret' = [ret EXCEPT ![p] = NoRet]
                         /\ pc' = [pc EXCEPT ![p] = "L20"]
    /\ mySet' = FollowGet(mySet, lru', p)
    /\ UNCHANGED <<now, lastOp, stamp, superseded, sfMu, sfM, calls,
                   cacheBytes, peers, getterCalls, setUsed, getterFailed, ringVars>>

\* load lines 100-108, entering the function given to Do: with a picker that
\* names a remote peer for the key, fetch from the peer; else call the Getter
LoadFnEnter(p) ==
    /\ pc[p] = "L34"
    /\ calls' = [calls EXCEPT ![ccall[p]].runs = @ + 1]
    /\ IF ~peers.nil /\ ckey[p] \in peers.remote
       THEN /\ pc' = [pc EXCEPT ![p] = "peer"]
            /\ UNCHANGED <<getterCalls, ranFn>>
       ELSE /\ pc' = [pc EXCEPT ![p] = "getter"]
            /\ getterCalls' = [getterCalls EXCEPT ![ckey[p]] = @ + 1]
            /\ ranFn' = [ranFn EXCEPT ![p] = TRUE]
    /\ UNCHANGED <<lruVars, sfMu, sfM, ckey, ccall, ret, overlap, alone, started,
                   cacheBytes, peers, setUsed, getterFailed, mySet, ringVars>>

\* a load that also adds the peer's bytes to the local cache
PeerReturnPopulates(p) ==
    /\ pc[p] = "peer"
    /\ \/ /\ calls' = [calls EXCEPT ![ccall[p]].val = PeerBytes(ckey[p]),
                                     ![ccall[p]].err = ""]
          /\ ret' = [ret EXCEPT ![p] = [val |-> PeerBytes(ckey[p]), err |-> ""]]
          /\ lru' = cacheAdd(lru, cacheBytes, ckey[p], PeerBytes(ckey[p]), 0, now)
          /\ pc' = [pc EXCEPT ![p] = "L35"]
          /\ UNCHANGED <<getterCalls, ranFn>>
       \/ /\ pc' = [pc EXCEPT ![p] = "getter"]
          /\ ret' = [ret EXCEPT ![p] = [val |-> "", err |-> PeerErr]]
          /\ getterCalls' = [getterCalls EXCEPT ![ckey[p]] = @ + 1]
          /\ ranFn' = [ranFn EXCEPT ![p] = TRUE]
          /\ UNCHANGED <<calls, lru>>
    /\ UNCHANGED <<now, lastOp, stamp, superseded, sfMu, sfM, ckey, ccall, overlap,
                   alone, started, cacheBytes, peers, setUsed, getterFailed, mySet, ringVars>>

\* load lines 103-106: getFromPeer returns into load's own value and err (the
\* function given to Do assigns the captured results); its bytes end the
\* function; an error is logged and the function goes on to getLocally
PeerReturn(p) ==
    /\ pc[p] = "peer"
    /\ \/ /\ calls' = [calls EXCEPT ![ccall[p]].val = PeerBytes(ckey[p]),
                                     ![ccall[p]].err = ""]
          /\ ret' = [ret EXCEPT ![p] = [val |-> PeerBytes(ckey[p]), err |-> ""]]
          /\ pc' = [pc EXCEPT ![p] = "L35"]
          /\ UNCHANGED <<getterCalls, ranFn>>
       \/ /\ pc' = [pc EXCEPT ![p] = "getter"]
          /\ ret' = [ret EXCEPT ![p] = [val |-> "", err |-> PeerErr]]
          /\ getterCalls' = [getterCalls EXCEPT ![ckey[p]] = @ + 1]
          /\ ranFn' = [ranFn EXCEPT ![p] = TRUE]
          /\ calls' = calls
    /\ UNCHANGED <<lruVars, sfMu, sfM, ckey, ccall, overlap, alone, started,
                   cacheBytes, peers, setUsed, getterFailed, mySet, ringVars>>

\* a getLocally that populates the cache before it looks at the error
GetterReturnCachesError(p) ==
    /\ pc[p] = "getter"
    /\ \/ /\ pc' = [pc EXCEPT ![p] = "populate"]
          /\ UNCHANGED <<calls, getterFailed, lru>>
       \/ /\ calls' = [calls EXCEPT ![ccall[p]].val = "", ![ccall[p]].err = GetterErr]
          /\ lru' = cacheAdd(lru, cacheBytes, ckey[p], "", 0, now)
          /\ pc' = [pc EXCEPT ![p] = "L35"]
          /\ getterFailed' = TRUE
    /\ UNCHANGED <<now, lastOp, stamp, superseded, sfMu, sfM, ckey, ccall, ret, ranFn,
                   overlap, alone, started, cacheBytes, peers, getterCalls, setUsed,
                   mySet, ringVars>>

\* getLocally lines 130-135: the Getter returns bytes, or an error that ends
\* the function
GetterReturn(p) ==
    /\ pc[p] = "getter"
    /\ \/ /\ pc' = [pc EXCEPT ![p] = "populate"]
          /\ UNCHANGED <<calls, getterFailed>>
       \/ /\ calls' = [calls EXCEPT ![ccall[p]].val = "", ![ccall[p]].err = GetterErr]
          /\ pc' = [pc EXCEPT ![p] = "L35"]
          /\ getterFailed' = TRUE
    /\ UNCHANGED <<lruVars, sfMu, sfM, ckey, ccall, ret, ranFn, overlap, alone, started,
                   cacheBytes, peers, getterCalls, setUsed, mySet, ringVars>>

\* getLocally lines 136-137: populateCache adds the bytes with ttl 0 and the
\* function returns them
Populate(p) ==
    /\ pc[p] = "populate"
    /\ lru' = cacheAdd(lru, cacheBytes, ckey[p], GetterBytes(ckey[p]), 0, now)
    /\ calls' = [calls EXCEPT ![ccall[p]].val = GetterBytes(ckey[p]),
                              ![ccall[p]].err = ""]
    /\ pc' = [pc EXCEPT ![p] = "L35"]
    /\ mySet' = Follow(mySet, lru')
    /\ UNCHANGED <<now, lastOp, stamp, superseded, sfMu, sfM, ckey, ccall, ret,
                   ranFn, overlap, alone, started,
                   cacheBytes, peers, getterCalls, setUsed, getterFailed, ringVars>>

GroupStep(p) ==
    \/ GroupSet(p)
    \/ GroupGet(p)
    \/ Lock20(p)
    \/ CheckMap(p)
    \/ Wait26(p)
    \/ Return(p)
    \/ LoadFnEnter(p)
    \/ GetterReturn(p)
    \/ Populate(p)
    \/ Done35(p)
    \/ Lock37(p)
    \/ Delete38(p)

\* a Group with no picker registered
NextGroup ==
    \/ GTick
    \/ GSweep
    \/ \E p \in GCallers : GroupStep(p)

\* a Group with a picker registered
NextGroupPeers ==
    \/ GTick
    \/ GSweep
    \/ \E p \in GCallers : GroupStep(p) \/ PeerReturn(p)

SpecGroup == InitGroup /\ [][NextGroup]_vars

SpecGroupPeers == InitGroupPeers /\ [][NextGroupPeers]_vars

\* SpecGroup with the history of Sets kept
SpecGroupSet == InitGroupSet /\ [][NextGroup]_vars

----------------------------------------------------------------------------
(* SpecRing: one client drives a Map built by New(replicas, fn) *)

InitRing ==
    /\ lru = NoLru
    /\ now = 1
    /\ lastOp = NoOp
    /\ stamp = [k \in Keys |-> 0]
    /\ superseded = {}
    /\ InitSFVars
    /\ InitGrpVars
    /\ \E replicas \in ReplicasChoices, fn \in HashFns : ring = RingNew(replicas, fn)
    /\ ringNodes = <<>>
    /\ ringLast = NoOp

\* Add(keys...) with one, two or three node names
DoRingAdd ==
    /\ \E n \in 1..3 : \E keys \in [1..n -> Nodes] :
         /\ Len(ringNodes) + n <= MaxAdded
         /\ ring' = RingAdd(ring, keys)
         /\ ringNodes' = ringNodes \o keys
         /\ ringLast' = [op |-> "Add", keys |-> keys]
    /\ UNCHANGED <<lruVars, sfVars, grpVars>>

DoRingGet ==
    /\ \E key \in RingKeys :
         ringLast' = [op |-> "Get", key |-> key, node |-> RingGet(ring, key)]
    /\ UNCHANGED <<ring, ringNodes, lruVars, sfVars, grpVars>>

NextRing ==
    \/ DoRingAdd
    \/ DoRingGet

SpecRing == InitRing /\ [][NextRing]_vars

----------------------------------------------------------------------------
(* Properties of singleflight, checked under SpecSF *)

\* C1: for every key, under every interleaving of Do callers, at most one
\* execution of fn for that key is in progress at any time.
C1_AtMostOneFnInProgress ==
    \A k \in SFKeys : Cardinality({p \in Callers : pc[p] = "fn" /\ ckey[p] = k}) <= 1

\* fn runs for a key while a second caller of that key waits on the latch and
\* a third is about to take the mutex
C1_Witness ==
    \E p, q, r \in Callers :
        /\ pc[p] = "fn" /\ pc[q] = "L26" /\ pc[r] = "L20"
        /\ ckey[p] = ckey[q] /\ ckey[q] = ckey[r]

\* C2 as stated: of the Do(k, fn) calls that overlap in time, at most one
\* invokes fn, and all return the identical (value, error) pair.
C2_OverlappingCallsShareOneFn ==
    \A p, q \in Callers :
        (p # q /\ q \in overlap[p]) =>
            /\ ~(ranFn[p] /\ ranFn[q])
            /\ (pc[p] = "done" /\ pc[q] = "done") => ret[p] = ret[q]

\* C2 amended: the Do(k, fn) calls that share one record (the caller that
\* installed it and the callers that found it in the map) invoke fn once
\* between them, and all return the (value, error) pair fn gave.
C2_SharedRecordOneFn ==
    /\ \A c \in 1..Len(calls) : calls[c].runs <= 1
    /\ \A p, q \in Callers :
          (p # q /\ ccall[p] # 0 /\ ccall[p] = ccall[q]) =>
              /\ ~(ranFn[p] /\ ranFn[q])
              /\ (pc[p] = "done" /\ pc[q] = "done") => ret[p] = ret[q]

\* the installer and a waiter of one record have both returned fn's pair
C2_Witness ==
    \E p, q \in Callers :
        /\ p # q /\ ccall[p] # 0 /\ ccall[p] = ccall[q]
        /\ pc[p] = "done" /\ pc[q] = "done"
        /\ ranFn[p] /\ ~ranFn[q]
        /\ ret[p] \in FnResults /\ ret[q] = ret[p]

\* the caller installed a record and has not yet deleted it
Owns(p) == pc[p] \in {"L34", "fn", "L35", "L37", "L38"}

\* the (value, error) pair held by the call record c
Pair(c) == [val |-> calls[c].val, err |-> calls[c].err]

\* C16: singleflight does no cross-call caching: a Do(k, fn2) made once every
\* earlier Do(k) has completed and the record for k is deleted, and which no
\* other Do(k) overlaps, invokes fn2 and returns the result of fn2, whether
\* the earlier call succeeded or failed.
C16_NewCallInvokesFn ==
    \A p \in Callers :
        (alone[p] /\ pc[p] = "done") =>
            /\ ranFn[p]
            /\ calls[ccall[p]].runs = 1
            /\ ret[p] = Pair(ccall[p])
            /\ ret[p] \in FnResults
            /\ \A q \in Callers \ {p} : ccall[q] # ccall[p]

\* a Do(k) that failed has returned; a later Do(k), overlapped by none, ran
\* fn again and returned a value
C16_Witness ==
    \E p, q \in Callers :
        /\ p # q /\ ckey[p] = ckey[q]
        /\ pc[q] = "done" /\ ranFn[q] /\ ret[q].err = "e"
        /\ pc[p] = "done" /\ alone[p] /\ ranFn[p] /\ ret[p].err = ""
        /\ ccall[q] < ccall[p]

\* C18: at every moment the map holds at most one record per key; the record
\* for k is there exactly from its installation by the owning Do call to that
\* call's delete; the delete comes after the latch is signaled and removes
\* the record the deleting caller installed; with no Do in progress the map
\* is empty.
C18_RecordWhileOwnerInFlight ==
    /\ \A k \in DOMAIN sfM.tab :
          Cardinality({p \in Callers :
                          Owns(p) /\ ckey[p] = k /\ ccall[p] = sfM.tab[k]}) = 1
    /\ \A p \in Callers :
          Owns(p) => (HasCall(sfM, ckey[p]) /\ sfM.tab[ckey[p]] = ccall[p])
    /\ \A p, q \in Callers :
          (Owns(p) /\ Owns(q) /\ ckey[p] = ckey[q]) => p = q
    /\ \A p \in Callers :
          /\ pc[p] \in {"L34", "fn", "L35"} => calls[ccall[p]].wg = 1
          /\ pc[p] \in {"L37", "L38", "L41"} => calls[ccall[p]].wg = 0
    /\ (\A p \in Callers : ~InDo(p)) => DOMAIN sfM.tab = {}

\* an owner holds the mutex and is about to delete its record, whose latch is
\* down, while a waiter of that record has not yet left Wait and another key
\* has a record of its own
C18_Witness ==
    \E p, q, r \in Callers :
        /\ pc[p] = "L38" /\ sfMu = p
        /\ pc[q] = "L26" /\ ccall[q] = ccall[p]
        /\ Owns(r) /\ ckey[r] # ckey[p]
        /\ DOMAIN sfM.tab = {ckey[p], ckey[r]}

\* C19: no caller holds the group mutex while it executes fn or waits on a
\* latch: the mutex is held only over the map lookup (lines 20-32) and the
\* delete (lines 37-39), whose holder never waits for anything, so a Do(k2)
\* is not blocked by an fn in flight for k1 and runs its own fn beside it.
C19_MutexOnlyAroundMap ==
    /\ \A p \in Callers :
          pc[p] \in {"L34", "fn", "L35", "L26", "L27"} => sfMu # p
    /\ sfMu # 0 =>
          /\ pc[sfMu] \in {"L21", "L38"}
          /\ ENABLED (CheckMap(sfMu) \/ Delete38(sfMu))
    /\ \A p, q \in Callers :
          (pc[p] = "fn" /\ pc[q] = "L34" /\ ckey[p] # ckey[q]) => ENABLED FnEnter(q)

\* fn runs for k1 and for k2 at once while a third caller waits on a latch
C19_Witness ==
    \E p, q, r \in Callers :
        /\ pc[p] = "fn" /\ pc[q] = "fn" /\ ckey[p] # ckey[q]
        /\ pc[r] = "L26"
        /\ sfMu = 0

\* fn has run for the call record c and has returned
FnReturned(c) ==
    /\ c <= Len(calls)
    /\ calls[c].runs = 1
    /\ \A p \in Callers : ccall[p] = c => pc[p] \notin {"L34", "fn"}

\* the map holds the call record c
InMap(c) == \E k \in DOMAIN sfM.tab : sfM.tab[k] = c

\* the caller is in Do on a record whose fn has returned: the leader after
\* fn, or a waiter in or after Wait
AfterFn(p) ==
    /\ pc[p] \in {"L26", "L27", "L35", "L37", "L38", "L41"}
    /\ FnReturned(ccall[p])

\* C20, checked under SpecSFFair: once the leader's fn has returned (a value
\* or an error), every caller waiting on the record returns, with the value
\* and error the leader wrote before it signaled the latch; the leader returns
\* too, its record deleted from the map; val and err are not written after
\* the signal.
C20_WaitersReturnLeaderResult ==
    /\ \A p \in Callers :
          AfterFn(p) ~> (/\ pc[p] = "done"
                         /\ ret[p] = Pair(ccall[p])
                         /\ ranFn[p] => ~InMap(ccall[p]))
    /\ [][\A c \in 1..Len(calls) : calls[c].wg = 0 => calls'[c] = calls[c]]_vars

\* a waiter has returned the error its leader's fn gave, the leader has
\* returned it too, and the record has left the map
C20_Witness ==
    \E p, q \in Callers :
        /\ p # q /\ ccall[q] # 0 /\ ccall[q] = ccall[p]
        /\ pc[p] = "done" /\ pc[q] = "done"
        /\ ranFn[p] /\ ~ranFn[q]
        /\ ret[q] = Pair(ccall[q]) /\ ret[p] = ret[q] /\ ret[q].err = "e"
        /\ ~InMap(ccall[q])

----------------------------------------------------------------------------
(* Properties of the Group read path *)

\* C3, checked under SpecGroup: of the concurrent Get(k) calls on a key
\* absent from the cache (the Getter succeeds, no Set), one alone calls the
\* Getter, and all return the same bytes, whatever the interleaving of their
\* lookups and loads.
C3_ConcurrentGetsLoadOnce ==
    (~setUsed /\ ~getterFailed) =>
        \A p, q \in GCallers :
            (p # q /\ q \in overlap[p]) =>
                /\ ~(ranFn[p] /\ ranFn[q])
                /\ (pc[p] = "done" /\ pc[q] = "done") => ret[p] = ret[q]

\* the Get of caller p went on to load and has returned
Loaded(p) == pc[p] = "done" /\ ccall[p] # 0

\* what the callers of a failing load return
ErrorsReturnedNotKept ==
    \A p \in GCallers :
        /\ (Loaded(p) /\ calls[ccall[p]].err = GetterErr) =>
               ret[p] = [val |-> "", err |-> GetterErr]
        /\ (pc[p] = "done" /\ ret[p].err = GetterErr) =>
               (ccall[p] # 0 /\ calls[ccall[p]].runs = 1 /\ Pair(ccall[p]) = ret[p])

\* caller q is running the load of call record c and has not yet deleted it
Loading(q, c) ==
    /\ ccall[q] = c
    /\ pc[q] \in {"L34", "peer", "getter", "populate", "L35", "L37", "L38"}

\* C13, checked under SpecGroupPeers: when the Getter fails for k, every
\* caller coalesced onto the failing load returns that error; the failing
\* load adds no entry to the local cache; a Get(k) coalesces only onto a load
\* of k still in flight, so one issued after the failing load completed
\* misses, starts a load of its own and calls the Getter again: an error is
\* returned only from a load whose own Getter call failed.
C13_GetterErrorReturnedNotCached ==
    [][/\ ErrorsReturnedNotKept'
       /\ \A p \in GCallers :
             /\ (pc[p] = "getter" /\ pc'[p] = "L35") =>
                   /\ lru' = lru
                   /\ calls'[ccall[p]].err = GetterErr
                   /\ \A q \in GCallers :
                         (ccall[q] = ccall[p] /\ InDo(q)) => pc[q] \in {"getter", "L26"}
             /\ (pc[p] = "L21" /\ pc'[p] = "L26") =>
                   \E q \in GCallers \ {p} :
                       Loading(q, ccall'[p]) /\ ckey[q] = ckey[p]
             /\ (pc[p] = "L21" /\ pc'[p] = "L34") =>
                   /\ ccall'[p] = Len(calls) + 1
                   /\ calls'[ccall'[p]].runs = 0
                   /\ \A q \in GCallers \ {p} :
                         ckey[q] = ckey[p] => ~(\E c \in 1..Len(calls) : Loading(q, c))
             /\ (pc[p] = "L34" /\ pc'[p] = "getter") =>
                   getterCalls' = [getterCalls EXCEPT ![ckey[p]] = @ + 1]
      ]_vars

\* a waiter coalesced onto a failing load has returned the error, the key
\* has no entry, and the leader's next Get of the key, issued after that load
\* completed, called the Getter again
C13_Witness ==
    \E p, q \in GCallers :
        /\ p # q /\ ckey[p] = ckey[q] /\ ckey[p] \in GKeys
        /\ Loaded(q) /\ ~ranFn[q] /\ ret[q] = [val |-> "", err |-> GetterErr]
        /\ Loaded(p) /\ ranFn[p] /\ ccall[p] > ccall[q]
        /\ calls[ccall[q]].runs = 1 /\ calls[ccall[p]].runs = 1
        /\ getterCalls[ckey[p]] = 2
        /\ ret[p] = [val |-> "", err |-> GetterErr]
        /\ lru = NoLru

\* the picker sends caller p's key to a remote peer
Remote(p) == ~peers.nil /\ ckey[p] \in peers.remote

\* the value the local cache holds for key, "" when it holds none
Cached(c, key) ==
    IF c = NoLru THEN ""
    ELSE IF key \in c.cache THEN c.ll[Elem(c, key)].value ELSE ""

\* C14, checked under SpecGroupPeers: in load with a picker that sends k to a
\* remote peer, a peer fetch that succeeds ends the load with the peer's
\* value and leaves the local cache as it was; a peer fetch that fails is
\* followed by one call of the Getter, whose value is returned and populated
\* into the local cache; the error a caller gets is the Getter's, so a peer
\* failure is surfaced only when the Getter fails too.
C14_PeerThenGetterFallback ==
    [][\A p \in GCallers :
         /\ (Remote(p) /\ pc[p] = "L34") => pc'[p] \in {"L34", "peer"}
         /\ (pc[p] = "peer" /\ pc'[p] = "L35") =>
                /\ lru' = lru
                /\ getterCalls' = getterCalls
                /\ Pair(ccall[p])' = [val |-> PeerBytes(ckey[p]), err |-> ""]
         /\ (pc[p] = "peer" /\ pc'[p] # "peer") =>
                \/ pc'[p] = "L35"
                \/ /\ pc'[p] = "getter"
                   /\ getterCalls' = [getterCalls EXCEPT ![ckey[p]] = @ + 1]
         /\ (pc[p] \in {"getter", "populate", "L35", "L37", "L38", "L41"}
                 /\ pc'[p] # pc[p]) =>
                /\ getterCalls' = getterCalls
                /\ pc'[p] # "peer"
         /\ (Remote(p) /\ pc[p] = "populate" /\ pc'[p] # "populate") =>
                /\ Pair(ccall[p])' = [val |-> GetterBytes(ckey[p]), err |-> ""]
                /\ Cached(lru', ckey[p]) = GetterBytes(ckey[p])
         /\ (Remote(p) /\ pc[p] = "L41" /\ pc'[p] = "done") =>
                /\ ret'[p] = Pair(ccall[p])
                /\ ret'[p].err \in {"", GetterErr}
                /\ ret'[p].err # "" => (ranFn[p] /\ getterFailed)
                /\ ret'[p].val \in {"", PeerBytes(ckey[p]), GetterBytes(ckey[p])}
                /\ ret'[p].val = GetterBytes(ckey[p]) <=> (ranFn[p] /\ ret'[p].err = "")
                /\ ret'[p].val = PeerBytes(ckey[p]) <=> ~ranFn[p]
      ]_vars

\* a load of the remote key has returned the peer's bytes and left no entry;
\* a later load, its peer fetch failing, returned the Getter's bytes and
\* populated them
C14_Witness ==
    \E p, q \in GCallers :
        /\ p # q /\ ckey[p] = ckey[q] /\ Remote(p)
        /\ Loaded(q) /\ ~ranFn[q] /\ ret[q] = [val |-> PeerBytes(ckey[q]), err |-> ""]
        /\ Loaded(p) /\ ranFn[p] /\ ccall[p] > ccall[q]
        /\ ret[p] = [val |-> GetterBytes(ckey[p]), err |-> ""]
        /\ getterCalls[ckey[p]] = 1
        /\ Cached(lru, ckey[p]) = GetterBytes(ckey[p])

\* both fetches have failed: the caller has the Getter's error
C14_BothFailWitness ==
    \E p \in GCallers :
        /\ Remote(p) /\ Loaded(p) /\ ranFn[p]
        /\ ret[p] = [val |-> "", err |-> GetterErr]

\* C15, checked under SpecGroupSet: a Set(k, v, ttl) followed in program
\* order by Get(k) in the same thread returns v, provided the entry was not
\* evicted or expired in between (and no other thread Set k); this while
\* other threads run Get/load, a load of k in flight when Set ran included,
\* and Set of other keys.
C15_GetAfterSetReturnsSetValue ==
    [][\A p \in GCallers :
         (/\ mySet[p].live
          /\ mySet'[p] = NoSet
          /\ ckey'[p] = mySet[p].key
          /\ cacheGetResult(lru, mySet[p].key, now).ok)
         => ret'[p] = [val |-> mySet[p].value, err |-> ""]]_vars

----------------------------------------------------------------------------
(* Properties of the LRU store, checked under SpecLRU *)

Entry(k) == lru.ll[Elem(lru, k)]

Expired(e, t) == e.expireAt # ZeroTime /\ e.expireAt < t

RECURSIVE SumBytes(_)
SumBytes(l) ==
    IF l = <<>> THEN 0
    ELSE Len(Head(l).key) + Len(Head(l).value) + SumBytes(Tail(l))

\* C4: after any sequence of Add, Get, RemoveOldest and CleanExpired, nbytes is
\* exactly the sum of len(key)+value.Len() over the entries in the store.
C4_NbytesIsSum == lru.nbytes = SumBytes(lru.ll)

\* an Add that updated a value and evicted, leaving a non-empty store
C4_Witness ==
    /\ lastOp.op = "Add"
    /\ Len(lru.evicted) > 0
    /\ Len(lru.ll) > 0
    /\ lru.nbytes = 6

\* C5: with maxBytes > 0, when Add returns nbytes <= maxBytes, and Add's
\* eviction loop has exited (also for a single entry larger than maxBytes).
C5_AddWithinMaxBytes ==
    (lru.maxBytes > 0 /\ lastOp.op = "Add") =>
        (lru.nbytes <= lru.maxBytes /\ ~lru.spin)

\* an Add whose entry alone exceeds maxBytes: the entry itself was evicted
C5_Witness ==
    /\ lastOp.op = "Add"
    /\ lru.maxBytes > 0
    /\ lastOp.key \notin lru.cache
    /\ Len(lru.evicted) > 0
    /\ lru.evicted[Len(lru.evicted)].key = lastOp.key
    /\ Len(lastOp.key) + Len(lru.evicted[Len(lru.evicted)].value) > lru.maxBytes

\* C6: Get(k) on an entry whose expireAt is non-zero and earlier than now
\* reports a miss, removes the entry and fires OnEvicted once, with its key
\* and value.
C6_GetNeverReturnsExpired ==
    [][(/\ lastOp'.op = "Get"
        /\ lastOp'.key \in lru.cache
        /\ Expired(Entry(lastOp'.key), now))
       => (/\ ~lastOp'.ok
           /\ lastOp'.key \notin lru'.cache
           /\ \A i \in 1..Len(lru'.ll) : lru'.ll[i].key # lastOp'.key
           /\ lru'.evicted = <<Entry(lastOp'.key)>>)]_vars

\* a Get that met an expired entry
C6_Witness ==
    /\ lastOp.op = "Get"
    /\ ~lastOp.ok
    /\ Len(lru.evicted) = 1
    /\ lru.evicted[1].key = lastOp.key
    /\ Expired(lru.evicted[1], now)

\* C7: an entry whose latest Add used ttl=0 never expires: neither Get nor
\* CleanExpired removes an entry whose expireAt is the zero time.
C7_ZeroTTLNeverExpires ==
    lastOp.op \in {"Get", "CleanExpired"} =>
        \A i \in 1..Len(lru.evicted) : lru.evicted[i].expireAt # ZeroTime

\* C8: after an update of an expiring key with a new ttl>0 the new expireAt
\* governs: CleanExpired does not remove the entry before that time has passed.
C8_NewTTLGoverns ==
    [][lastOp'.op = "CleanExpired" =>
         \A k \in superseded :
            ~Expired(Entry(k), now) => k \in lru'.cache]_vars

\* C9: when CleanExpired returns, the store holds no entry whose expireAt is
\* non-zero and earlier than now; and at all times every live expiring entry
\* has a heap item carrying its current expireAt.
C9_CleanExpiredLeavesNoneExpired ==
    /\ lastOp.op = "CleanExpired" =>
          \A i \in 1..Len(lru.ll) : ~Expired(lru.ll[i], now)
    /\ \A i \in 1..Len(lru.ll) :
          lru.ll[i].expireAt # ZeroTime =>
             [expireAt |-> lru.ll[i].expireAt, key |-> lru.ll[i].key]
                \in Range(lru.expireHeap)

\* a CleanExpired that removed an expired entry and stopped at a heap top
\* that has not expired, whose entry is still in the store
C9_Witness ==
    /\ lastOp.op = "CleanExpired"
    /\ Len(lru.evicted) > 0
    /\ Len(lru.expireHeap) > 0
    /\ \E i \in 1..Len(lru.ll) : lru.ll[i].expireAt # ZeroTime

\* the literal scenario: maxBytes=10, Add a=12345, b=12345, c=1
Scenario3 ==
    Add(Add(Add(New(10, TRUE), "a", "12345", 0, 1), "b", "12345", 0, 1), "c", "1", 0, 1)

----------------------------------------------------------------------------
(* Properties of the hash ring, checked under SpecRing *)

Min(S) == CHOOSE x \in S : \A y \in S : x <= y

\* replicas=3, the identity hash on decimal strings, nodes "6", "4", "2" added
\* in that order
InScenario5 ==
    /\ ring.hash = "atoi"
    /\ ring.replicas = 3
    /\ ringNodes = << <<"6">>, <<"4">>, <<"2">> >>

\* C11 as stated: on a ring with replicas=3 and the identity hash on decimal
\* strings, after Add("6","4","2"): Get("2") returns "2", Get("11") returns
\* "2", and Get("27") returns "4".
C11_Scenario5AsStated ==
    (InScenario5 /\ ringLast.op = "Get") =>
        /\ ringLast.key = <<"2">> => ringLast.node = <<"2">>
        /\ ringLast.key = <<"1", "1">> => ringLast.node = <<"2">>
        /\ ringLast.key = <<"2", "7">> => ringLast.node = <<"4">>

\* C11 amended: on that ring the positions are 2, 4, 6, 12, 14, 16, 22, 24,
\* 26; Get("2") returns "2", Get("11") returns "2", and Get("27"), above every
\* position, wraps to the smallest position 2 and returns "2".
C11_Scenario5 ==
    InScenario5 =>
        /\ ring.keys = <<2, 4, 6, 12, 14, 16, 22, 24, 26>>
        /\ ringLast.op = "Get" =>
              /\ ringLast.key = <<"2">> => ringLast.node = <<"2">>
              /\ ringLast.key = <<"1", "1">> => ringLast.node = <<"2">>
              /\ ringLast.key = <<"2", "7">> => ringLast.node = <<"2">>

\* Get("27") has answered on the ring of the scenario
C11_Witness ==
    /\ InScenario5
    /\ ringLast.op = "Get"
    /\ ringLast.key = <<"2", "7">>
    /\ ringLast.node = <<"2">>

\* C12: ring monotonicity: when Add is given nodes not yet on the ring, the
\* result of Get(key) is, for every key, either unchanged or one of the nodes
\* just added; no key moves from one pre-existing node to another, also when
\* a position of a new node collides with an existing position.
C12_AddIsMonotone ==
    [][(/\ ringNodes' # ringNodes
        /\ \A i \in 1..Len(ringLast'.keys) : ringLast'.keys[i] \notin Range(ringNodes))
       => \A key \in RingKeys :
             \/ RingGet(ring', key) = RingGet(ring, key)
             \/ RingGet(ring', key) \in Range(ringLast'.keys)]_vars

\* the ring as it was before the last Add
RingBeforeLastAdd ==
    RingAdd(RingNew(ring.replicas, ring.hash),
            SubSeq(ringNodes, 1, Len(ringNodes) - Len(ringLast.keys)))

\* Add(N) of one new node on a ring that held others, one of N's positions
\* colliding with an existing one: a key moved to N, another kept its node
C12_Witness ==
    /\ ringLast.op = "Add"
    /\ Len(ringLast.keys) = 1
    /\ Len(ringNodes) > 1
    /\ ringLast.keys[1] \notin Range(SubSeq(ringNodes, 1, Len(ringNodes) - 1))
    /\ \E x \in DOMAIN RingBeforeLastAdd.hashMap :
          RingBeforeLastAdd.hashMap[x] # ring.hashMap[x]
    /\ \E key \in RingKeys :
          /\ RingGet(RingBeforeLastAdd, key) # ringLast.keys[1]
          /\ RingGet(ring, key) = ringLast.keys[1]
    /\ \E key \in RingKeys :
          /\ RingGet(ring, key) # ringLast.keys[1]
          /\ RingGet(ring, key) = RingGet(RingBeforeLastAdd, key)

\* how many times x occurs in the sequence s
Count(s, x) == Cardinality({i \in 1..Len(s) : s[i] = x})

\* the positions of the nodes added so far, replica by replica
AddedPositions ==
    [j \in 1..(Len(ringNodes) * ring.replicas) |->
        Hash(ring.hash,
             ReplicaName((j - 1) % ring.replicas,
                         ringNodes[((j - 1) \div ring.replicas) + 1]))]

\* C17: Get(key) on an empty ring returns the empty identity; on a non-empty
\* ring it returns the node mapped to the smallest position >= hash(key), and
\* the node mapped to the smallest position overall (index 0) when no position
\* is >= hash(key); after any sequence of Add calls the positions array is
\* sorted ascending and holds replicas entries per added node.
C17_GetSmallestPositionAtLeast ==
    /\ ringLast.op = "Get" =>
          LET h == Hash(ring.hash, ringLast.key)
              atLeast == {x \in Range(ring.keys) : x >= h}
          IN IF Len(ring.keys) = 0 THEN ringLast.node = <<>>
             ELSE IF atLeast # {} THEN ringLast.node = ring.hashMap[Min(atLeast)]
             ELSE ringLast.node = ring.hashMap[ring.keys[1]]
    /\ \A i, j \in 1..Len(ring.keys) : i < j => ring.keys[i] <= ring.keys[j]
    /\ Len(ring.keys) = ring.replicas * Len(ringNodes)
    /\ \A x \in Range(ring.keys) \cup Range(AddedPositions) :
          Count(ring.keys, x) = Count(AddedPositions, x)

\* a Get whose hash is above every position: it wrapped to index 0
C17_Witness ==
    /\ ringLast.op = "Get"
    /\ Len(ring.keys) > 1
    /\ \A i \in 1..Len(ring.keys) : ring.keys[i] < Hash(ring.hash, ringLast.key)
    /\ ringLast.node = ring.hashMap[ring.keys[1]]
    /\ ring.keys[1] < ring.keys[Len(ring.keys)]

====
